---- MODULE Spec2Model ----
(***************************************************************************)
(* reaper-arpad: an OSC control surface for REAPER.                        *)
(*                                                                         *)
(* The host thread drains a non-blocking UDP socket (ArpadSurface::run),   *)
(* dispatches every decoded message over the route table (handle_packet,   *)
(* dispatch_route), answers queries and engine notifications by pushing    *)
(* OSC messages on a bounded channel, and a sender thread writes the       *)
(* channel's messages to the network.  polling.rs holds a color poller     *)
(* with a per-track cache.                                                 *)
(*                                                                         *)
(* Conventions of the model:                                               *)
(*   - Option<T>: <<>> is None, <<v>> is Some(v).                          *)
(*   - OSC floats, pan and linear volume values are fixed-point numbers in *)
(*     thousandths (500 is 0.5); decibels are in hundredths.               *)
(*   - a Rust panic (unwrap on None, index out of bounds) is the result    *)
(*     "Panic"; it unwinds out of the host callback and sets crashed.      *)
(***************************************************************************)
EXTENDS Integers, Sequences, FiniteSets, TLC

None == <<>>
Some(v) == <<v>>
IsSome(o) == o # <<>>
Unwrap(o) == o[1]

(***************************************************************************)
(* Bounds of the model.                                                    *)
(***************************************************************************)
\* host operations (datagrams received and engine notifications) in a run of Spec
MaxOps == 2
\* poll ticks and out-of-band engine changes in a run of PollSpec
MaxTicks == 3
MaxChanges == 3
\* sends of one track
MaxSends == 2
\* datagrams in a burst of queries (StallSpec): enough to fill the channel and go on
MaxBurst == 130
\* poll sources registered with the poll manager
MaxSources == 2

(***************************************************************************)
(* Program constants.                                                      *)
(***************************************************************************)
\* bounded(128): capacity of the outbound channel
QueueCapacity == 128
\* VolumeSliderValue::TWELVE_DB.get(), in slider units
TWELVE_DB == 1000
\* Db::MINUS_150_DB, in hundredths of a decibel
MINUS_150_DB == 0 - 15000

(***************************************************************************)
(* Strings.  TLC gives Len, SubSeq and \o on strings; a character is a     *)
(* string of length 1.                                                     *)
(***************************************************************************)
CharAt(s, i) == SubSeq(s, i, i)

HexDigit(d) == CharAt("0123456789abcdef", d + 1)

RECURSIVE HexDigits(_)
\* lowercase hexadecimal digits of n >= 0, no padding
HexDigits(n) == IF n < 16 THEN HexDigit(n) ELSE HexDigits(n \div 16) \o HexDigit(n % 16)

RECURSIVE ZeroPad(_, _)
ZeroPad(s, w) == IF Len(s) >= w THEN s ELSE ZeroPad("0" \o s, w)

\* format!("{:0w$x}", n): at least w digits, zero padded
Hex(n, w) == ZeroPad(HexDigits(n), w)

\* guid_to_string(guid)
guid_to_string(guid) ==
    Hex(guid.Data1, 8) \o "-" \o Hex(guid.Data2, 4) \o "-" \o Hex(guid.Data3, 4) \o "-"
    \o Hex(guid.Data4[1], 2) \o Hex(guid.Data4[2], 2) \o "-"
    \o Hex(guid.Data4[3], 2) \o Hex(guid.Data4[4], 2) \o Hex(guid.Data4[5], 2)
    \o Hex(guid.Data4[6], 2) \o Hex(guid.Data4[7], 2) \o Hex(guid.Data4[8], 2)

IsDigit(c) == c \in {"0", "1", "2", "3", "4", "5", "6", "7", "8", "9"}

DigitVal(c) == CHOOSE d \in 0..9 : HexDigit(d) = c

I32_MAX == 2147483647

RECURSIVE ParseDigits(_, _, _, _)
\* digits of s from position i on, accumulated into acc with i32 overflow checks;
\* neg accumulates downwards, as core::num does for a negative literal
ParseDigits(s, i, acc, neg) ==
    IF i > Len(s) THEN Some(acc)
    ELSE IF ~IsDigit(CharAt(s, i)) THEN None
    ELSE LET d == DigitVal(CharAt(s, i)) IN
         IF neg
         THEN IF acc < (0 - I32_MAX - 1 + d) \div 10 + (IF (0 - I32_MAX - 1 + d) % 10 = 0 THEN 0 ELSE 1)
              THEN None
              ELSE ParseDigits(s, i + 1, acc * 10 - d, neg)
         ELSE IF acc > (I32_MAX - d) \div 10
              THEN None
              ELSE ParseDigits(s, i + 1, acc * 10 + d, neg)

\* str::parse::<i32>(): optional sign, then at least one digit, no overflow
ParseI32(s) ==
    IF Len(s) = 0 THEN None
    ELSE IF CharAt(s, 1) \in {"+", "-"}
         THEN IF Len(s) = 1 THEN None ELSE ParseDigits(s, 2, 0, CharAt(s, 1) = "-")
         ELSE ParseDigits(s, 1, 0, FALSE)

\* Display of an i32
FormatI32(n) == ToString(n)

\* Display of (n as u32): n itself when n >= 0, 2^32 + n otherwise, computed in
\* two decimal limbs of five digits to stay inside TLC's integers
FormatAsU32(n) ==
    IF n >= 0 THEN ToString(n)
    ELSE LET a == (0 - n) \div 100000
             b == (0 - n) % 100000
             borrow == IF 67296 < b THEN 1 ELSE 0
             hi == 42949 - a - borrow
             lo == 67296 - b + borrow * 100000
         IN  ToString(hi) \o ZeroPad(ToString(lo), 5)

(***************************************************************************)
(* The backend (REAPER).  "M" is the master track; the project's tracks    *)
(* are listed in `project`, in mixer order.                                *)
(***************************************************************************)
MasterTrack == "M"
Tracks == {"M", "T1", "T2"}

\* the native GUID of each track (get_set_media_track_info_get_guid)
TrackGuid ==
    [t \in Tracks |->
        [Data1 |-> CASE t = "M" -> 0 [] t = "T1" -> 43794 [] OTHER -> 2147483647,
         Data2 |-> CASE t = "M" -> 0 [] t = "T1" -> 52 [] OTHER -> 65535,
         Data3 |-> CASE t = "M" -> 0 [] t = "T1" -> 4660 [] OTHER -> 10,
         Data4 |-> CASE t = "M" -> <<0, 0, 0, 0, 0, 0, 0, 0>>
                     [] t = "T1" -> <<1, 35, 69, 103, 137, 171, 205, 239>>
                     [] OTHER -> <<255, 0, 16, 2, 0, 0, 0, 9>>]]

\* get_track_guid(reaper, track)
get_track_guid(t) == guid_to_string(TrackGuid[t])

\* the identifier strings, computed once
GuidStr == [t \in Tracks |-> get_track_guid(t)]

Colors == 0..2

\* the state of one track
InitTrack(t) ==
    [name |-> "a", selected |-> 0, vol |-> 1000, pan |-> 0, mute |-> 0, solo |-> 0,
     recarm |-> 0, color |-> 0,
     sends |-> IF t = "T1" THEN <<[dest |-> "T2", vol |-> 1000, pan |-> 0]>> ELSE <<>>]

\* count_tracks(CurrentProject)
count_tracks(proj) == Len(proj)

\* get_track(CurrentProject, i), i from 0
get_track(proj, i) == IF i < Len(proj) THEN Some(proj[i + 1]) ELSE None

\* mutant: only the track at position i is compared
FindTrack_First(proj, guid, i) ==
    IF i >= Len(proj) THEN None
    ELSE IF GuidStr[proj[i + 1]] = guid THEN Some(proj[i + 1]) ELSE None

RECURSIVE FindTrack(_, _, _)
FindTrack(proj, guid, i) ==
    IF i >= count_tracks(proj) THEN None
    ELSE IF GuidStr[Unwrap(get_track(proj, i))] = guid
         THEN get_track(proj, i)
         ELSE FindTrack(proj, guid, i + 1)

\* mutant: an identifier of no track falls back to the first track of the project
get_track_by_guid_Fallback(proj, guid) ==
    IF GuidStr[MasterTrack] = guid THEN Some(MasterTrack)
    ELSE IF FindTrack(proj, guid, 0) = None THEN get_track(proj, 0) ELSE FindTrack(proj, guid, 0)

\* get_track_by_guid(reaper, guid): Some(track), or None for Err(GuidNotFound)
get_track_by_guid(proj, guid) ==
    IF GuidStr[MasterTrack] = guid THEN Some(MasterTrack) ELSE FindTrack(proj, guid, 0)

\* mutant: a track is taken to have one send at most
get_track_num_sends_One(b, t) == IF Len(b[t].sends) > 0 THEN 1 ELSE 0

\* get_track_num_sends(track, Send)
get_track_num_sends(b, t) == Len(b[t].sends)

\* get_track_send_info_desttrack(track, Send, i): None for Err
get_track_send_info_desttrack(b, t, i) ==
    IF i >= 0 /\ i < Len(b[t].sends) THEN Some(b[t].sends[i + 1].dest) ELSE None

\* get_track_send_info_value(track, Send, i, key): 0.0 for a send that does not exist
get_track_send_info_value(b, t, i, key) ==
    IF i >= 0 /\ i < Len(b[t].sends)
    THEN (IF key = "Vol" THEN b[t].sends[i + 1].vol ELSE b[t].sends[i + 1].pan)
    ELSE 0

\* the engine's slider curve on its sample points: slider position (0..1000) and
\* decibels (hundredths)
SliderCurve == {<<0, MINUS_150_DB>>, <<500, 0 - 1208>>, <<716, 0>>, <<1000, 1200>>}

\* decibels (hundredths) and linear gain (thousandths) on the same sample points
GainCurve == {<<MINUS_150_DB, 0>>, <<0 - 1208, 249>>, <<0, 1000>>, <<1200, 3981>>}

\* reaper.slider2db(slider)
slider2db(sl) == (CHOOSE p \in SliderCurve : p[1] = sl)[2]

\* reaper.db2slider(db)
db2slider(db) == (CHOOSE p \in SliderCurve : p[2] = db)[1]

\* Db::to_linear_volume_value()
to_linear_volume_value(db) == (CHOOSE p \in GainCurve : p[1] = db)[2]

\* ReaperVolumeValue::to_db_ex(min_db)
to_db_ex(lin, min_db) ==
    LET db == (CHOOSE p \in GainCurve : p[2] = lin)[1] IN IF db < min_db THEN min_db ELSE db

\* ReaperVolumeValue::new(v) accepts v >= 0; ReaperPanValue::new(v) accepts -1 <= v <= 1
ValidVolume(v) == v >= 0
ValidPan(v) == v >= 0 - 1000 /\ v <= 1000

(***************************************************************************)
(* OSC values and messages.                                                *)
(***************************************************************************)
OscInt(n) == [ty |-> "Int", i |-> n, s |-> ""]
OscFloat(n) == [ty |-> "Float", i |-> n, s |-> ""]
OscBool(b) == [ty |-> "Bool", i |-> IF b THEN 1 ELSE 0, s |-> ""]
OscString(str) == [ty |-> "String", i |-> 0, s |-> str]

\* OscType::int(), ::float(), ::string()
ArgInt(a) == IF a.ty = "Int" THEN Some(a.i) ELSE None
ArgFloat(a) == IF a.ty = "Float" THEN Some(a.i) ELSE None
ArgString(a) == IF a.ty = "String" THEN Some(a.s) ELSE None

OscMessage(addr, args) == [addr |-> addr, args |-> args]

(***************************************************************************)
(* Address parsing.                                                        *)
(***************************************************************************)
RECURSIVE SplitAt(_, _, _, _)
\* str::split(sep): the pieces between separators, empty pieces included
SplitAt(s, sep, i, cur) ==
    IF i > Len(s) THEN <<cur>>
    ELSE IF CharAt(s, i) = sep
         THEN <<cur>> \o SplitAt(s, sep, i + 1, "")
         ELSE SplitAt(s, sep, i + 1, cur \o CharAt(s, i))

Split(s, sep) == SplitAt(s, sep, 1, "")

\* mutant: only a leading empty segment is dropped
parse_osc_address_LeadingOnly(addr) ==
    IF Head(Split(addr, "/")) = "" THEN Tail(Split(addr, "/")) ELSE Split(addr, "/")

\* parse_osc_address(addr)
parse_osc_address(addr) == SelectSeq(Split(addr, "/"), LAMBDA seg : seg # "")


(***************************************************************************)
(* The routes (osc_routes.rs).  ReceiveParams is [track_guid, send_index]  *)
(* (send_index 0 where the route has none); SendParams is                  *)
(* [track, send_index, i, s] with the value in i (numbers) or s (strings). *)
(* A u32 holds its i32 bit pattern; FormatAsU32 displays it.               *)
(***************************************************************************)
TrackRoutes ==
    {"TrackIndexRoute", "TrackNameRoute", "TrackSelectedRoute", "TrackVolumeRoute",
     "TrackPanRoute", "TrackMuteRoute", "TrackSoloRoute", "TrackRecArmRoute",
     "TrackColorRoute"}
SendRoutes == {"TrackSendGuidRoute", "TrackSendVolumeRoute", "TrackSendPanRoute"}
Routes == TrackRoutes \cup SendRoutes

\* the routes whose receive mutates the backend
WritableRoutes == Routes \ {"TrackIndexRoute", "TrackSendGuidRoute"}

\* the literal that ends each route's pattern
Leaf(r) ==
    CASE r = "TrackIndexRoute" -> "index"
      [] r = "TrackNameRoute" -> "name"
      [] r = "TrackSelectedRoute" -> "selected"
      [] r = "TrackVolumeRoute" -> "volume"
      [] r = "TrackPanRoute" -> "pan"
      [] r = "TrackMuteRoute" -> "mute"
      [] r = "TrackSoloRoute" -> "solo"
      [] r = "TrackRecArmRoute" -> "rec-arm"
      [] r = "TrackColorRoute" -> "color"
      [] r = "TrackSendGuidRoute" -> "guid"
      [] r = "TrackSendVolumeRoute" -> "volume"
      [] r = "TrackSendPanRoute" -> "pan"

\* mutant: the pattern's last literal is not compared
MatchTrack_AnyLeaf(segments, leaf) ==
    IF Len(segments) = 3 /\ segments[1] = "track"
    THEN Some([track_guid |-> segments[2], send_index |-> 0])
    ELSE None

\* ["track", track_guid, leaf] => Some(params)
MatchTrack(segments, leaf) ==
    IF Len(segments) = 3 /\ segments[1] = "track" /\ segments[3] = leaf
    THEN Some([track_guid |-> segments[2], send_index |-> 0])
    ELSE None

\* mutant: a send index that does not parse counts as send 0
MatchSend_DefaultIndex(segments, leaf) ==
    IF Len(segments) = 5 /\ segments[1] = "track" /\ segments[3] = "send" /\ segments[5] = leaf
    THEN IF ParseI32(segments[4]) = None
         THEN Some([track_guid |-> segments[2], send_index |-> 0])
         ELSE Some([track_guid |-> segments[2], send_index |-> Unwrap(ParseI32(segments[4]))])
    ELSE None

\* ["track", track_guid, "send", send_index, leaf] => Some(params), send_index.parse().ok()?
MatchSend(segments, leaf) ==
    IF Len(segments) = 5 /\ segments[1] = "track" /\ segments[3] = "send" /\ segments[5] = leaf
    THEN IF ParseI32(segments[4]) = None
         THEN None
         ELSE Some([track_guid |-> segments[2], send_index |-> Unwrap(ParseI32(segments[4]))])
    ELSE None

\* T::matcher(segments)
matcher(r, segments) ==
    IF r \in SendRoutes THEN MatchSend(segments, Leaf(r)) ELSE MatchTrack(segments, Leaf(r))

Res(res, b) == [res |-> res, b |-> b]

\* set_media_track_info_value(track, key, msg.args[0].clone().int().unwrap() as f64)
\* after get_track_by_guid(...)?
ReceiveIntAttr(p, msg, proj, b, key) ==
    LET t == get_track_by_guid(proj, p.track_guid) IN
    IF t = None THEN Res("GuidNotFound", b)
    ELSE IF Len(msg.args) = 0 THEN Res("Panic", b)
    ELSE IF ArgInt(msg.args[1]) = None THEN Res("Panic", b)
    ELSE Res("Ok", [b EXCEPT ![Unwrap(t)][key] = Unwrap(ArgInt(msg.args[1]))])

TrackIndexRoute_receive(p, msg, proj, b) == Res("Ok", b)

TrackNameRoute_receive(p, msg, proj, b) ==
    LET t == get_track_by_guid(proj, p.track_guid) IN
    IF t = None THEN Res("GuidNotFound", b)
    ELSE IF Len(msg.args) = 0 THEN Res("Panic", b)
    ELSE IF ArgString(msg.args[1]) = None THEN Res("BadValue", b)
    ELSE Res("Ok", [b EXCEPT ![Unwrap(t)].name = Unwrap(ArgString(msg.args[1]))])

TrackSelectedRoute_receive(p, msg, proj, b) == ReceiveIntAttr(p, msg, proj, b, "selected")

\* mutant: the wire value is not scaled, the slider stays at its top
slider_value_Top(volume_raw) == TWELVE_DB

\* VolumeSliderValue::new(volume_raw as f64 * VolumeSliderValue::TWELVE_DB.get())
slider_value(volume_raw) == (volume_raw * TWELVE_DB) \div 1000

TrackVolumeRoute_receive(p, msg, proj, b) ==
    LET t == get_track_by_guid(proj, p.track_guid) IN
    IF t = None THEN Res("GuidNotFound", b)
    ELSE IF Len(msg.args) = 0 THEN Res("Panic", b)
    ELSE IF ArgFloat(msg.args[1]) = None THEN Res("BadValue", b)
    ELSE LET volume_raw == Unwrap(ArgFloat(msg.args[1]))
             volume_db == slider2db(slider_value(volume_raw))
             volume_linear == to_linear_volume_value(volume_db)
         IN  Res("Ok", [b EXCEPT ![Unwrap(t)].vol = volume_linear])

TrackPanRoute_receive(p, msg, proj, b) ==
    LET t == get_track_by_guid(proj, p.track_guid) IN
    IF t = None THEN Res("GuidNotFound", b)
    ELSE IF Len(msg.args) = 0 THEN Res("Panic", b)
    ELSE IF ArgFloat(msg.args[1]) = None THEN Res("Panic", b)
    ELSE Res("Ok", [b EXCEPT ![Unwrap(t)].pan = Unwrap(ArgFloat(msg.args[1]))])

TrackMuteRoute_receive(p, msg, proj, b) == ReceiveIntAttr(p, msg, proj, b, "mute")

TrackSoloRoute_receive(p, msg, proj, b) == ReceiveIntAttr(p, msg, proj, b, "solo")

TrackRecArmRoute_receive(p, msg, proj, b) == ReceiveIntAttr(p, msg, proj, b, "recarm")

TrackSendGuidRoute_receive(p, msg, proj, b) ==
    IF get_track_by_guid(proj, p.track_guid) = None THEN Res("GuidNotFound", b) ELSE Res("Ok", b)

\* set_track_send_ui_vol / set_track_send_ui_pan: Err when the send does not exist
SetSendValue(b, t, i, key, v) ==
    IF i >= 0 /\ i < Len(b[t].sends)
    THEN Res("Ok", [b EXCEPT ![t].sends[i + 1][key] = v])
    ELSE Res("Reaper", b)

TrackSendVolumeRoute_receive(p, msg, proj, b) ==
    LET t == get_track_by_guid(proj, p.track_guid) IN
    IF t = None THEN Res("GuidNotFound", b)
    ELSE IF p.send_index < 0 THEN Res("BadValue", b)
    ELSE IF Len(msg.args) = 0 THEN Res("Panic", b)
    ELSE IF ArgFloat(msg.args[1]) = None THEN Res("Panic", b)
    ELSE IF ~ValidVolume(Unwrap(ArgFloat(msg.args[1]))) THEN Res("BadValue", b)
    ELSE SetSendValue(b, Unwrap(t), p.send_index, "vol", Unwrap(ArgFloat(msg.args[1])))

TrackSendPanRoute_receive(p, msg, proj, b) ==
    LET t == get_track_by_guid(proj, p.track_guid) IN
    IF t = None THEN Res("GuidNotFound", b)
    ELSE IF p.send_index < 0 THEN Res("BadValue", b)
    ELSE IF Len(msg.args) = 0 THEN Res("Panic", b)
    ELSE IF ArgFloat(msg.args[1]) = None THEN Res("Panic", b)
    ELSE IF ~ValidPan(Unwrap(ArgFloat(msg.args[1]))) THEN Res("BadValue", b)
    ELSE SetSendValue(b, Unwrap(t), p.send_index, "pan", Unwrap(ArgFloat(msg.args[1])))

TrackColorRoute_receive(p, msg, proj, b) ==
    LET t == get_track_by_guid(proj, p.track_guid) IN
    IF t = None THEN Res("GuidNotFound", b)
    ELSE IF Len(msg.args) = 0 THEN Res("Panic", b)
    ELSE IF ArgInt(msg.args[1]) = None THEN Res("BadValue", b)
    ELSE Res("Ok", [b EXCEPT ![Unwrap(t)].color = Unwrap(ArgInt(msg.args[1]))])

\* T::receive(params, msg, reaper)
receive(r, p, msg, proj, b) ==
    CASE r = "TrackIndexRoute" -> TrackIndexRoute_receive(p, msg, proj, b)
      [] r = "TrackNameRoute" -> TrackNameRoute_receive(p, msg, proj, b)
      [] r = "TrackSelectedRoute" -> TrackSelectedRoute_receive(p, msg, proj, b)
      [] r = "TrackVolumeRoute" -> TrackVolumeRoute_receive(p, msg, proj, b)
      [] r = "TrackPanRoute" -> TrackPanRoute_receive(p, msg, proj, b)
      [] r = "TrackMuteRoute" -> TrackMuteRoute_receive(p, msg, proj, b)
      [] r = "TrackSoloRoute" -> TrackSoloRoute_receive(p, msg, proj, b)
      [] r = "TrackRecArmRoute" -> TrackRecArmRoute_receive(p, msg, proj, b)
      [] r = "TrackSendGuidRoute" -> TrackSendGuidRoute_receive(p, msg, proj, b)
      [] r = "TrackSendVolumeRoute" -> TrackSendVolumeRoute_receive(p, msg, proj, b)
      [] r = "TrackSendPanRoute" -> TrackSendPanRoute_receive(p, msg, proj, b)
      [] r = "TrackColorRoute" -> TrackColorRoute_receive(p, msg, proj, b)


SendParams(track, send_index, i, str) == [track |-> track, send_index |-> send_index, i |-> i, s |-> str]

BoolOf(v) == v # 0

\* format!("/track/{}/<leaf>", get_track_guid(reaper, track))
Addr3(track_guid, leaf) == "/track/" \o track_guid \o "/" \o leaf
\* mutant: the format arguments are given in the wrong order
Addr5_Swapped(track_guid, send_index, leaf) ==
    "/track/" \o send_index \o "/send/" \o track_guid \o "/" \o leaf

\* format!("/track/{}/send/{}/<leaf>", get_track_guid(reaper, track), send_index)
Addr5(track_guid, send_index, leaf) ==
    "/track/" \o track_guid \o "/send/" \o send_index \o "/" \o leaf

\* mutant: the linear gain is sent as it is, without the curve
vol_norm_Raw(volume) == volume

\* TrackVolumeRoute::build_message: linear gain to the normalized wire value
vol_norm(volume) ==
    LET vol_db == to_db_ex(volume, MINUS_150_DB)
        vol_lin == db2slider(vol_db)
    IN  (vol_lin * 1000) \div TWELVE_DB

\* T::build_message(args, reaper)
build_message(r, a) ==
    CASE r = "TrackIndexRoute" -> OscMessage(Addr3(GuidStr[a.track], "index"), <<OscInt(a.i)>>)
      [] r = "TrackNameRoute" -> OscMessage(Addr3(GuidStr[a.track], "name"), <<OscString(a.s)>>)
      [] r = "TrackSelectedRoute" ->
            OscMessage(Addr3(GuidStr[a.track], "selected"), <<OscBool(BoolOf(a.i))>>)
      [] r = "TrackVolumeRoute" ->
            OscMessage(Addr3(GuidStr[a.track], "volume"), <<OscFloat(vol_norm(a.i))>>)
      [] r = "TrackPanRoute" -> OscMessage(Addr3(GuidStr[a.track], "pan"), <<OscFloat(a.i)>>)
      [] r = "TrackMuteRoute" -> OscMessage(Addr3(GuidStr[a.track], "mute"), <<OscBool(BoolOf(a.i))>>)
      [] r = "TrackSoloRoute" -> OscMessage(Addr3(GuidStr[a.track], "solo"), <<OscBool(BoolOf(a.i))>>)
      [] r = "TrackRecArmRoute" ->
            OscMessage(Addr3(GuidStr[a.track], "rec-arm"), <<OscBool(BoolOf(a.i))>>)
      [] r = "TrackSendGuidRoute" ->
            OscMessage(Addr5(GuidStr[a.track], FormatI32(a.send_index), "guid"), <<OscString(a.s)>>)
      [] r = "TrackSendVolumeRoute" ->
            OscMessage(Addr5(GuidStr[a.track], FormatAsU32(a.send_index), "volume"), <<OscFloat(a.i)>>)
      [] r = "TrackSendPanRoute" ->
            OscMessage(Addr5(GuidStr[a.track], FormatAsU32(a.send_index), "pan"), <<OscFloat(a.i)>>)
      [] r = "TrackColorRoute" -> OscMessage(Addr3(GuidStr[a.track], "color"), <<OscInt(a.i)>>)

\* get_track_idx / get_media_track_info_value(track, TrackNumber): 1-based position in
\* the project, 0 when the track is not in it, -1 for the master track
RECURSIVE PositionIn(_, _, _)
PositionIn(proj, t, i) ==
    IF i > Len(proj) THEN 0 ELSE IF proj[i] = t THEN i ELSE PositionIn(proj, t, i + 1)

TrackNumber(proj, t) == IF t = MasterTrack THEN 0 - 1 ELSE PositionIn(proj, t, 1)

\* mutant: the flag is read inverted
BoolAttr_Inverted(v) == IF v # 0 THEN 0 ELSE 1

\* (value != 0.0) of a boolean track attribute
BoolAttr(v) == IF v # 0 THEN 1 ELSE 0

\* the value a route's collect_send_params reads for a track that exists
CollectValue(r, p, t, proj, b) ==
    CASE r = "TrackIndexRoute" -> Some(SendParams(t, 0, TrackNumber(proj, t), ""))
      [] r = "TrackNameRoute" -> Some(SendParams(t, 0, 0, b[t].name))
      [] r = "TrackSelectedRoute" -> Some(SendParams(t, 0, BoolAttr(b[t].selected), ""))
      [] r = "TrackVolumeRoute" -> Some(SendParams(t, 0, b[t].vol, ""))
      [] r = "TrackPanRoute" -> Some(SendParams(t, 0, b[t].pan, ""))
      [] r = "TrackMuteRoute" -> Some(SendParams(t, 0, BoolAttr(b[t].mute), ""))
      [] r = "TrackSoloRoute" -> Some(SendParams(t, 0, BoolAttr(b[t].solo), ""))
      [] r = "TrackRecArmRoute" -> Some(SendParams(t, 0, BoolAttr(b[t].recarm), ""))
      [] r = "TrackSendGuidRoute" ->
            LET send_track == get_track_send_info_desttrack(b, t, p.send_index) IN
            IF send_track = None THEN None
            ELSE Some(SendParams(t, p.send_index, 0, GuidStr[Unwrap(send_track)]))
      [] r = "TrackSendVolumeRoute" ->
            Some(SendParams(t, p.send_index, get_track_send_info_value(b, t, p.send_index, "Vol"), ""))
      [] r = "TrackSendPanRoute" ->
            Some(SendParams(t, p.send_index, get_track_send_info_value(b, t, p.send_index, "Pan"), ""))
      [] r = "TrackColorRoute" -> Some(SendParams(t, 0, b[t].color, ""))

\* mutant: an identifier of no track is answered with the master track's value
collect_send_params_Master(r, p, proj, b) ==
    LET t == get_track_by_guid(proj, p.track_guid)
        v == CollectValue(r, p, IF t = None THEN MasterTrack ELSE Unwrap(t), proj, b)
    IN  IF v = None THEN [res |-> "ValueNotFound", params |-> None]
        ELSE [res |-> "Ok", params |-> v]

\* T::collect_send_params(params, reaper): [res, params]
collect_send_params(r, p, proj, b) ==
    LET t == get_track_by_guid(proj, p.track_guid) IN
    IF t = None THEN [res |-> "GuidNotFound", params |-> None]
    ELSE LET v == CollectValue(r, p, Unwrap(t), proj, b) IN
         IF v = None THEN [res |-> "ValueNotFound", params |-> None]
         ELSE [res |-> "Ok", params |-> v]

(***************************************************************************)
(* The dispatcher (lib.rs).  A dispatch state is [b, out, log, panicked]:  *)
(* the backend, the messages pushed on the channel, one log entry per      *)
(* route that matched, and whether a panic is unwinding.                   *)
(***************************************************************************)
QueryMarker == "?"

is_query(segments) == Len(segments) > 0 /\ segments[Len(segments)] = QueryMarker

match_segments(segments) ==
    IF is_query(segments) THEN SubSeq(segments, 1, Len(segments) - 1) ELSE segments

LogEntry(r, q, res) == [route |-> r, query |-> q, res |-> res]

(***************************************************************************)
(* Inbound datagrams the model draws from.                                 *)
(***************************************************************************)
Message(addr, args) == [kind |-> "Message", addr |-> addr, args |-> args]

G1 == GuidStr["T1"]
UnknownGuid == "UNKNOWN"

TrackLeaves == {Leaf(r) : r \in TrackRoutes}
SendLeaves == {Leaf(r) : r \in SendRoutes}

In3(g, leaf) == "/track/" \o g \o "/" \o leaf
In5(g, n, leaf) == "/track/" \o g \o "/send/" \o n \o "/" \o leaf

ArgLists == {<<>>, <<OscInt(1)>>, <<OscFloat(500)>>, <<OscBool(TRUE)>>, <<OscString("b")>>}

\* writes to a track of the project, with every shape of argument list
WritesExisting ==
    {Message(In3(G1, l), a) : l \in TrackLeaves, a \in ArgLists}
    \cup {Message(In5(G1, "0", l), a) : l \in SendLeaves, a \in {<<>>, <<OscInt(1)>>, <<OscFloat(500)>>}}
    \cup {Message(In5(G1, n, l), <<OscFloat(500)>>) : n \in {"1", "01", "-1"}, l \in {"volume", "pan"}}
    \cup {Message(In3(GuidStr[MasterTrack], l), <<OscInt(2)>>) : l \in {"mute", "color"}}
    \cup {Message(In3(G1, "volume"), <<OscFloat(x)>>) : x \in {0, 716, 1000}}

\* writes to an identifier of no track
WritesUnknown ==
    {Message(In3(UnknownGuid, l), a) : l \in TrackLeaves, a \in {<<>>, <<OscBool(TRUE)>>}}
    \cup {Message(In5(UnknownGuid, "0", l), a) : l \in SendLeaves, a \in {<<>>, <<OscFloat(500)>>}}

\* queries: the query marker is a segment of its own
Queries ==
    {Message(In3(G1, l) \o "/?", <<>>) : l \in TrackLeaves}
    \cup {Message(In5(G1, n, l) \o "/?", <<>>) : n \in {"0", "1", "01", "+1", "-1", "x"}, l \in SendLeaves}
    \cup {Message(In3(G1, "mute") \o "/?", <<OscInt(1)>>),
          Message(In3(UnknownGuid, "mute") \o "/?", <<>>),
          Message(In5(UnknownGuid, "0", "volume") \o "/?", <<>>),
          Message(In3(GuidStr[MasterTrack], "color") \o "/?", <<>>)}

\* addresses with empty segments, with the marker glued to the last segment, of no route
OddAddresses ==
    {Message("//track/" \o G1 \o "//mute/", <<OscInt(1)>>),
     Message(In3(G1, "volume?"), <<>>),
     Message(In3(G1, "mute?"), <<OscInt(1)>>),
     Message("track/" \o G1 \o "/solo/?/", <<>>),
     Message("/track/" \o G1, <<OscInt(1)>>),
     Message("/?", <<>>),
     Message("", <<>>),
     Message("/track/" \o G1 \o "/send/2147483648/volume", <<OscFloat(500)>>),
     Message("/track//" \o G1 \o "/send/0/pan/", <<OscFloat(500)>>),
     Message("/master/volume", <<OscFloat(500)>>)}

Bundle == [kind |-> "Bundle", addr |-> In3(G1, "mute"), args |-> <<OscInt(1)>>]
Undecodable == [kind |-> "Undecodable", addr |-> "", args |-> <<>>]

\* a bundle whose content is a query
BundleQuery == [kind |-> "Bundle", addr |-> In3(G1, "mute") \o "/?", args |-> <<>>]

Datagrams ==
    WritesExisting \cup WritesUnknown \cup Queries \cup OddAddresses
    \cup {Bundle, BundleQuery, Undecodable}

\* the parsed address of every datagram, computed once
Segments == [d \in Datagrams |-> parse_osc_address(d.addr)]

\* mutant: no datagram counts as a query
IsQuery_Never == [d \in Datagrams |-> FALSE]

\* is_query and T::matcher(match_segments) of every datagram and route, computed once
IsQuery == [d \in Datagrams |-> is_query(Segments[d])]
Matched == [d \in Datagrams |-> [r \in Routes |-> matcher(r, match_segments(Segments[d]))]]

\* dispatch_route::<T>(segments, msg, reaper, osc_sender)
dispatch_route(r, msg, proj, st) ==
    IF st.panicked THEN st
    ELSE LET params == Matched[msg][r] IN
         IF params = None THEN st
         ELSE IF IsQuery[msg]
              THEN LET c == collect_send_params(r, Unwrap(params), proj, st.b) IN
                   IF c.res = "Ok"
                   THEN [st EXCEPT !.out = Append(@, build_message(r, Unwrap(c.params))),
                                   !.log = Append(@, LogEntry(r, TRUE, "Ok"))]
                   ELSE [st EXCEPT !.log = Append(@, LogEntry(r, TRUE, c.res))]
              ELSE LET rc == receive(r, Unwrap(params), msg, proj, st.b) IN
                   [st EXCEPT !.b = rc.b,
                              !.log = Append(@, LogEntry(r, FALSE, rc.res)),
                              !.panicked = (rc.res = "Panic")]

\* mutant: the mute route is dispatched twice
DispatchOrder_Doubled ==
    <<"TrackNameRoute", "TrackSelectedRoute", "TrackVolumeRoute", "TrackPanRoute",
      "TrackMuteRoute", "TrackMuteRoute", "TrackSoloRoute", "TrackRecArmRoute",
      "TrackSendVolumeRoute", "TrackSendPanRoute", "TrackColorRoute">>

\* the routes handle_packet dispatches, in its order
DispatchOrder ==
    <<"TrackNameRoute", "TrackSelectedRoute", "TrackVolumeRoute", "TrackPanRoute",
      "TrackMuteRoute", "TrackSoloRoute", "TrackRecArmRoute", "TrackSendVolumeRoute",
      "TrackSendPanRoute", "TrackColorRoute">>

RECURSIVE DispatchFrom(_, _, _, _)
DispatchFrom(k, msg, proj, st) ==
    IF k > Len(DispatchOrder) THEN st
    ELSE DispatchFrom(k + 1, msg, proj, dispatch_route(DispatchOrder[k], msg, proj, st))

\* mutant: the content of a bundle is dispatched like a message
handle_packet_Unpack(packet, proj, b) ==
    LET st0 == [b |-> b, out |-> <<>>, log |-> <<>>, panicked |-> FALSE] IN
    IF packet.kind \in {"Message", "Bundle"}
    THEN DispatchFrom(1, packet, proj, st0)
    ELSE st0

\* handle_packet(reaper, packet, osc_sender)
handle_packet(packet, proj, b) ==
    LET st0 == [b |-> b, out |-> <<>>, log |-> <<>>, panicked |-> FALSE] IN
    IF packet.kind = "Message"
    THEN DispatchFrom(1, packet, proj, st0)
    ELSE st0

\* rosc::decoder::decode_udp(bytes): None for Err
decode_udp(d) == IF d.kind = "Undecodable" THEN None ELSE Some(d)



(***************************************************************************)
(* State.                                                                  *)
(***************************************************************************)
VARIABLES
    project,      \* the project's tracks, in mixer order
    backend,      \* the engine's state of every track
    queue,        \* the outbound channel: [id, msg], oldest first
    hostpc,       \* "idle": the host is between callbacks; "run": inside run()'s loop;
                  \* "blocked": inside Sender::send on a full channel;
                  \* "dead": a panic left a host callback
    pending,      \* while blocked: the messages the callback has still to push, and
                  \* where the host thread continues once they are pushed
    crashed,      \* a panic has unwound out of a host callback
    nops,         \* host operations so far
    last,         \* the last host operation: its datagram, dispatch log, pushed messages
    enqueued,     \* history: every message pushed on the channel, in push order
    written,      \* history: the [id, msg] the sender thread wrote to the network, in order
    prev_colors,  \* TrackColorPollSource.prev_colors: set of <<guid, color>>
    nticks,       \* poll ticks so far
    nchanges,     \* out-of-band engine changes so far
    sources       \* PollManager.sources: the prev_colors of every registered
                  \* TrackColorPollSource, in registration order

vars == <<project, backend, queue, hostpc, pending, crashed, nops, last, enqueued, written,
          prev_colors, nticks, nchanges, sources>>

pollvars == <<prev_colors, nticks, nchanges, sources>>

NoLast ==
    [op |-> "none", dgram |-> Undecodable, log |-> <<>>, out |-> <<>>, changed |-> FALSE]

NoPending == [msgs |-> <<>>, ret |-> "idle"]

Init ==
    /\ project = <<"T1", "T2">>
    /\ backend = [t \in Tracks |-> InitTrack(t)]
    /\ queue = <<>>
    /\ hostpc = "idle"
    /\ pending = NoPending
    /\ crashed = FALSE
    /\ nops = 0
    /\ last = NoLast
    /\ enqueued = <<>>
    /\ written = <<>>
    /\ prev_colors = {}
    /\ nticks = 0
    /\ nchanges = 0
    /\ sources = <<>>

\* mutant: the channel counts as full one message early
is_full_Early(q) == Len(q) >= QueueCapacity - 1

\* the bounded channel is full: Sender::send blocks until a message is taken
is_full(q) == Len(q) >= QueueCapacity

\* mutant: a message that finds the channel full is dropped (try_send)
SendWhileRoom_Drop(q, sent, out) ==
    LET room == IF Len(q) >= QueueCapacity THEN 0 ELSE QueueCapacity - Len(q)
        n == IF Len(out) <= room THEN Len(out) ELSE room
    IN  [queue |-> q \o [k \in 1..n |-> [id |-> Len(enqueued) + Len(sent) + k, msg |-> out[k]]],
         sent |-> sent \o SubSeq(out, 1, n),
         rest |-> <<>>]

RECURSIVE SendWhileRoom(_, _, _)
\* osc_sender.send(m) for the messages of out in turn, up to the first one that finds
\* the channel full: [queue, sent, rest]
SendWhileRoom(q, sent, out) ==
    IF out = <<>> \/ is_full(q) THEN [queue |-> q, sent |-> sent, rest |-> out]
    ELSE SendWhileRoom(Append(q, [id |-> Len(enqueued) + Len(sent) + 1, msg |-> Head(out)]),
                       Append(sent, Head(out)), Tail(out))

\* a host callback pushes the messages of out and continues at ret; it blocks in
\* Sender::send when the channel is full
Push(out, ret) ==
    LET s == SendWhileRoom(queue, <<>>, out) IN
    /\ queue' = s.queue
    /\ enqueued' = enqueued \o s.sent
    /\ hostpc' = IF s.rest = <<>> THEN ret ELSE "blocked"
    /\ pending' = IF s.rest = <<>> THEN NoPending ELSE [msgs |-> s.rest, ret |-> ret]

\* the sender thread took a message: the blocked send returns and the callback goes on
HostResume ==
    /\ hostpc = "blocked"
    /\ ~is_full(queue)
    /\ Push(pending.msgs, pending.ret)
    /\ UNCHANGED <<project, backend, crashed, nops, last, written, pollvars>>

(***************************************************************************)
(* ArpadSurface::run: the drain loop, one recv_from per step.              *)
(***************************************************************************)
RunBegin ==
    /\ hostpc = "idle"
    /\ hostpc' = "run"
    /\ UNCHANGED <<project, backend, queue, pending, crashed, nops, last, enqueued, written,
                   pollvars>>

\* recv_from returns a datagram: decode it and hand it to handle_packet
RunRecvUpTo(d, max) ==
    /\ hostpc = "run"
    /\ nops < max
    /\ LET pk == decode_udp(d)
           st == IF pk = None
                 THEN [b |-> backend, out |-> <<>>, log |-> <<>>, panicked |-> FALSE]
                 ELSE handle_packet(Unwrap(pk), project, backend)
       IN  /\ backend' = st.b
           /\ Push(st.out, IF st.panicked THEN "dead" ELSE "run")
           /\ crashed' = st.panicked
           /\ last' = [op |-> "packet", dgram |-> d, log |-> st.log, out |-> st.out,
                       changed |-> (st.b # backend)]
    /\ nops' = nops + 1
    /\ UNCHANGED <<project, written, pollvars>>

RunRecv(d) == RunRecvUpTo(d, MaxOps)

\* recv_from returns WouldBlock: the loop ends and run returns to the host
RunWouldBlock ==
    /\ hostpc = "run"
    /\ hostpc' = "idle"
    /\ UNCHANGED <<project, backend, queue, pending, crashed, nops, last, enqueued, written,
                   pollvars>>

(***************************************************************************)
(* The ControlSurface callbacks: the engine changed a value and notifies.  *)
(***************************************************************************)
Notified(op, b, out) ==
    /\ hostpc = "idle"
    /\ nops < MaxOps
    /\ backend' = b
    /\ Push(out, "idle")
    /\ last' = [op |-> op, dgram |-> Undecodable, log |-> <<>>, out |-> out,
                changed |-> (b # backend)]
    /\ nops' = nops + 1
    /\ UNCHANGED <<project, crashed, written, pollvars>>

\* mutant: the sends of a track are announced from the last one down
SendGuidMessages_Descending(b, t, i) ==
    LET n == Len(b[t].sends) IN
    [k \in 1..(IF n > i THEN n - i ELSE 0) |->
        OscMessage("/track/" \o GuidStr[t] \o "/send/" \o ToString(n - k) \o "/guid",
                   <<OscString(GuidStr[b[t].sends[n - k + 1].dest])>>)]

RECURSIVE SendGuidMessages(_, _, _)
\* the inner loop of set_track_list_change over the sends of track t, from send i on
SendGuidMessages(b, t, i) ==
    IF i >= get_track_num_sends(b, t) THEN <<>>
    ELSE <<build_message("TrackSendGuidRoute",
                         SendParams(t, i, 0, GuidStr[Unwrap(get_track_send_info_desttrack(b, t, i))]))>>
         \o SendGuidMessages(b, t, i + 1)

RECURSIVE TrackListMessages(_, _, _)
\* the outer loop of set_track_list_change, from track i on
TrackListMessages(proj, b, i) ==
    IF i >= count_tracks(proj) THEN <<>>
    ELSE LET track == Unwrap(get_track(proj, i)) IN
         <<build_message("TrackIndexRoute", SendParams(track, 0, TrackNumber(proj, track), ""))>>
         \o SendGuidMessages(b, track, 0)
         \o TrackListMessages(proj, b, i + 1)

set_track_list_change ==
    Notified("set_track_list_change", backend, TrackListMessages(project, backend, 0))

set_track_title(t, name) ==
    Notified("set_track_title", [backend EXCEPT ![t].name = name],
             <<build_message("TrackNameRoute", SendParams(t, 0, 0, name))>>)

set_surface_volume(t, volume) ==
    Notified("set_surface_volume", [backend EXCEPT ![t].vol = volume],
             <<build_message("TrackVolumeRoute", SendParams(t, 0, volume, ""))>>)

set_surface_pan(t, pan) ==
    Notified("set_surface_pan", [backend EXCEPT ![t].pan = pan],
             <<build_message("TrackPanRoute", SendParams(t, 0, pan, ""))>>)

set_surface_mute(t, mute) ==
    Notified("set_surface_mute", [backend EXCEPT ![t].mute = IF mute THEN 1 ELSE 0],
             <<build_message("TrackMuteRoute", SendParams(t, 0, IF mute THEN 1 ELSE 0, ""))>>)

(***************************************************************************)
(* The sender thread: for msg in osc_receiver.iter() { encode; send_to }.  *)
(***************************************************************************)
\* mutant: the channel hands out its newest message
Dequeue_Last(q) == q[Len(q)]

\* the message the channel hands to its receiver
Dequeue(q) == Head(q)

\* mutant: the channel keeps the message it handed out
Remaining_Keep(q, m) == q

\* the channel after it handed out m
Remaining(q, m) == SelectSeq(q, LAMBDA e : e.id # m.id)

\* mutant: a message is written to the network twice
send_to_Twice(w, m, ok) == IF ok THEN Append(Append(w, m), m) ELSE w

\* if let Ok(buf) = encode(&msg) { let _ = sock.send_to(buf, dev_addr) }: what the
\* network has seen after it
send_to(w, m, ok) == IF ok THEN Append(w, m) ELSE w

\* ok: encode and send_to both succeeded; a failure of either is swallowed
SenderStep(ok) ==
    /\ queue # <<>>
    /\ LET m == Dequeue(queue) IN
       /\ queue' = Remaining(queue, m)
       /\ written' = send_to(written, m, ok)
    /\ UNCHANGED <<project, backend, hostpc, pending, crashed, nops, last, enqueued, pollvars>>

Next ==
    \/ RunBegin
    \/ \E d \in Datagrams : RunRecv(d)
    \/ RunWouldBlock
    \/ set_track_list_change
    \/ set_track_title("T1", "c")
    \/ set_surface_volume("T1", 3981)
    \/ set_surface_pan("T1", 0 - 1000)
    \/ set_surface_mute("T1", TRUE)
    \/ \E ok \in BOOLEAN : SenderStep(ok)

Spec == Init /\ [][Next]_vars


(***************************************************************************)
(* The color poller (polling.rs), driven by poll ticks and by out-of-band  *)
(* changes of the engine's state.                                          *)
(***************************************************************************)
\* mutant: the cache never finds an entry
CacheGet_Miss(cache, guid) == None

\* HashMap::get / HashMap::insert on prev_colors
CacheGet(cache, guid) ==
    IF \E e \in cache : e[1] = guid THEN Some((CHOOSE e \in cache : e[1] = guid)[2]) ELSE None

\* mutant: an insertion evicts the other entries
CacheInsert_Evict(cache, guid, color) == {<<guid, color>>}

CacheInsert(cache, guid, color) == {e \in cache : e[1] # guid} \cup {<<guid, color>>}

CacheKeys(cache) == {e[1] : e \in cache}

\* mutant: a changed color is sent but the cache keeps the old one
PollTrack_NoInsert(ps, track, color) ==
    LET guid == GuidStr[track]
        prev_color == CacheGet(ps.cache, guid)
        msg == build_message("TrackColorRoute", SendParams(track, 0, color, ""))
    IN  IF prev_color # None
        THEN IF Unwrap(prev_color) # color
             THEN [cache |-> ps.cache, out |-> Append(ps.out, msg)]
             ELSE ps
        ELSE [cache |-> CacheInsert(ps.cache, guid, color), out |-> Append(ps.out, msg)]

\* the body of poll_and_send's loop for one track: [cache, out]
PollTrack(ps, track, color) ==
    LET guid == GuidStr[track]
        prev_color == CacheGet(ps.cache, guid)
        msg == build_message("TrackColorRoute", SendParams(track, 0, color, ""))
    IN  IF prev_color # None
        THEN IF Unwrap(prev_color) # color
             THEN [cache |-> CacheInsert(ps.cache, guid, color), out |-> Append(ps.out, msg)]
             ELSE ps
        ELSE [cache |-> CacheInsert(ps.cache, guid, color), out |-> Append(ps.out, msg)]

RECURSIVE PollFrom(_, _, _, _)
\* for i in 0..count_tracks(CurrentProject)
PollFrom(i, proj, b, ps) ==
    IF i >= count_tracks(proj) THEN ps
    ELSE LET track == Unwrap(get_track(proj, i)) IN
         PollFrom(i + 1, proj, b, PollTrack(ps, track, b[track].color))

\* TrackColorPollSource::poll_and_send, called by PollManager::poll_all
poll_and_send ==
    /\ hostpc = "idle"
    /\ nticks < MaxTicks
    /\ LET ps == PollFrom(0, project, backend, [cache |-> prev_colors, out |-> <<>>]) IN
       /\ prev_colors' = ps.cache
       /\ Push(ps.out, "idle")
    /\ nticks' = nticks + 1
    /\ UNCHANGED <<project, backend, crashed, nops, last, written, nchanges, sources>>

\* the user recolors a track: the engine sends no notification for it
ExtSetColor(t, c) ==
    /\ nchanges < MaxChanges
    /\ backend[t].color # c
    /\ backend' = [backend EXCEPT ![t].color = c]
    /\ nchanges' = nchanges + 1
    /\ UNCHANGED <<project, queue, hostpc, pending, crashed, nops, last, enqueued, written,
                   prev_colors, nticks, sources>>

\* the user deletes a track of the project; the engine drops the sends that led to it
ExtDeleteTrack(t) ==
    /\ nchanges < MaxChanges
    /\ project' = SelectSeq(project, LAMBDA x : x # t)
    /\ project' # project
    /\ backend' = [u \in Tracks |->
                      [backend[u] EXCEPT !.sends = SelectSeq(@, LAMBDA snd : snd.dest # t)]]
    /\ nchanges' = nchanges + 1
    /\ UNCHANGED <<queue, hostpc, pending, crashed, nops, last, enqueued, written,
                   prev_colors, nticks, sources>>

\* the user brings a deleted track back (undo): same identifier, at the end of the project
ExtInsertTrack(t) ==
    /\ nchanges < MaxChanges
    /\ t # MasterTrack
    /\ \A i \in 1..Len(project) : project[i] # t
    /\ project' = Append(project, t)
    /\ nchanges' = nchanges + 1
    /\ UNCHANGED <<backend, queue, hostpc, pending, crashed, nops, last, enqueued, written,
                   prev_colors, nticks, sources>>

\* the user routes track t to track d
ExtAddSend(t, d) ==
    /\ nchanges < MaxChanges
    /\ t # d
    /\ \E i \in 1..Len(project) : project[i] = d
    /\ \E i \in 1..Len(project) : project[i] = t
    /\ Len(backend[t].sends) < MaxSends
    /\ backend' = [backend EXCEPT ![t].sends = Append(@, [dest |-> d, vol |-> 1000, pan |-> 0])]
    /\ nchanges' = nchanges + 1
    /\ UNCHANGED <<project, queue, hostpc, pending, crashed, nops, last, enqueued, written,
                   prev_colors, nticks, sources>>

PollNext ==
    \/ poll_and_send
    \/ \E t \in Tracks, c \in Colors : ExtSetColor(t, c)
    \/ \E t \in Tracks : ExtDeleteTrack(t)
    \/ \E t \in Tracks : ExtInsertTrack(t)
    \/ \E ok \in BOOLEAN : SenderStep(ok)

PollSpec == Init /\ [][PollNext]_vars

(***************************************************************************)
(* The poll manager: a registry of poll sources, polled one after the      *)
(* other on every tick through the sender the caller hands in.             *)
(***************************************************************************)
\* PollManager::add_source with a new TrackColorPollSource: its cache is empty
add_source ==
    /\ hostpc = "idle"
    /\ Len(sources) < MaxSources
    /\ sources' = Append(sources, {})
    /\ UNCHANGED <<project, backend, queue, hostpc, pending, crashed, nops, last, enqueued,
                   written, prev_colors, nticks, nchanges>>

RECURSIVE PollDisconnectedFrom(_, _, _, _)
\* poll_and_send on a channel whose receiver is gone: the first track whose color
\* the cache does not hold is inserted, its send fails and `?` returns the error
PollDisconnectedFrom(i, proj, b, cache) ==
    IF i >= count_tracks(proj) THEN [cache |-> cache, out |-> <<>>, res |-> "Ok"]
    ELSE LET track == Unwrap(get_track(proj, i))
             guid == GuidStr[track]
             color == b[track].color
         IN  IF CacheGet(cache, guid) = Some(color)
             THEN PollDisconnectedFrom(i + 1, proj, b, cache)
             ELSE [cache |-> CacheInsert(cache, guid, color), out |-> <<>>, res |-> "Send"]

\* source.poll_and_send(osc_sender) of one registered source: [cache, out, res]
PollSource(cache, proj, b, connected) ==
    IF connected
    THEN LET ps == PollFrom(0, proj, b, [cache |-> cache, out |-> <<>>]) IN
         [cache |-> ps.cache, out |-> ps.out, res |-> "Ok"]
    ELSE PollDisconnectedFrom(0, proj, b, cache)

\* the entry poll_all leaves for source k: its result, Err printed by eprintln
PollEntry(k, res) == [source |-> k, res |-> res]

RECURSIVE PollAllFrom_StopAtError(_, _, _, _, _, _)
\* mutant: the first error ends the tick
PollAllFrom_StopAtError(k, srcs, proj, b, connected, acc) ==
    IF k > Len(srcs) THEN acc
    ELSE LET p == IF connected
                  THEN LET ps == PollFrom(0, proj, b, [cache |-> srcs[k], out |-> <<>>]) IN
                       [cache |-> ps.cache, out |-> ps.out, res |-> "Ok"]
                  ELSE PollDisconnectedFrom(0, proj, b, srcs[k])
             next == [sources |-> [acc.sources EXCEPT ![k] = p.cache],
                      out |-> acc.out \o p.out,
                      log |-> Append(acc.log, [source |-> k, res |-> p.res])]
         IN  IF p.res # "Ok" THEN next
             ELSE PollAllFrom_StopAtError(k + 1, srcs, proj, b, connected, next)

RECURSIVE PollAllFrom(_, _, _, _, _, _)
\* for source in self.sources.iter_mut(), from source k on: [sources, out, log]
PollAllFrom(k, srcs, proj, b, connected, acc) ==
    IF k > Len(srcs) THEN acc
    ELSE LET p == PollSource(srcs[k], proj, b, connected) IN
         PollAllFrom(k + 1, srcs, proj, b, connected,
                     [sources |-> [acc.sources EXCEPT ![k] = p.cache],
                      out |-> acc.out \o p.out,
                      log |-> Append(acc.log, PollEntry(k, p.res))])

\* PollManager::poll_all(osc_sender); connected: the receiver of osc_sender is alive
poll_all(connected) ==
    /\ hostpc = "idle"
    /\ nticks < MaxTicks
    /\ LET acc == PollAllFrom(1, sources, project, backend, connected,
                              [sources |-> sources, out |-> <<>>, log |-> <<>>])
       IN  /\ sources' = acc.sources
           /\ Push(acc.out, "idle")
           /\ last' = [op |-> "poll_all", dgram |-> Undecodable, log |-> acc.log,
                       out |-> acc.out, changed |-> FALSE, connected |-> connected]
    /\ nticks' = nticks + 1
    /\ UNCHANGED <<project, backend, crashed, nops, written, prev_colors, nchanges>>

ManagerNext ==
    \/ add_source
    \/ \E connected \in BOOLEAN : poll_all(connected)
    \/ \E t \in Tracks, c \in Colors : ExtSetColor(t, c)
    \/ SenderStep(TRUE)

ManagerSpec == Init /\ [][ManagerNext]_vars

(***************************************************************************)
(* The control surface under engine notifications, with the project's      *)
(* tracks and sends changing in between.                                   *)
(***************************************************************************)
\* the engine changed a track's selection: ControlSurface::set_surface_selected is
\* not overridden by ArpadSurface, the trait's default does nothing
set_surface_selected(t, selected) ==
    Notified("set_surface_selected", [backend EXCEPT ![t].selected = IF selected THEN 1 ELSE 0],
             <<>>)

SurfaceNext ==
    \/ set_track_list_change
    \/ \E t \in Tracks, name \in {"b"} : set_track_title(t, name)
    \/ \E t \in Tracks, volume \in {0, 249} : set_surface_volume(t, volume)
    \/ \E t \in Tracks, pan \in {500} : set_surface_pan(t, pan)
    \/ \E t \in Tracks, mute \in BOOLEAN : set_surface_mute(t, mute)
    \/ \E t \in Tracks, selected \in BOOLEAN : set_surface_selected(t, selected)
    \/ \E t \in Tracks : ExtDeleteTrack(t)
    \/ \E t \in Tracks : ExtInsertTrack(t)
    \/ \E t \in Tracks, d \in Tracks : ExtAddSend(t, d)
    \/ SenderStep(TRUE)

SurfaceSpec == Init /\ [][SurfaceNext]_vars

(***************************************************************************)
(* A burst of queries against the bounded channel: the host thread and the *)
(* sender thread around a full queue.                                      *)
(***************************************************************************)
StallDatagrams == {Message(In3(G1, "mute") \o "/?", <<>>)}

StallNext ==
    \/ RunBegin
    \/ \E d \in StallDatagrams : RunRecvUpTo(d, MaxBurst)
    \/ RunWouldBlock
    \/ HostResume
    \/ SenderStep(TRUE)

StallSpec == Init /\ [][StallNext]_vars

(***************************************************************************)
(* The host's ticks over time: the host calls run again and again, every   *)
(* run ends at WouldBlock, and the sender thread keeps running.            *)
(***************************************************************************)
LiveDatagrams ==
    {Message(In3(G1, "color"), <<OscInt(1)>>),
     Message(In3(G1, "color") \o "/?", <<>>),
     Message(In3(G1, "mute"), <<OscInt(1)>>)}

LiveNext ==
    \/ RunBegin
    \/ \E d \in LiveDatagrams : RunRecv(d)
    \/ RunWouldBlock
    \/ \E t \in Tracks, c \in Colors : ExtSetColor(t, c)
    \/ \E ok \in BOOLEAN : SenderStep(ok)

LiveSpec ==
    /\ Init /\ [][LiveNext]_vars
    /\ WF_vars(RunBegin)
    /\ WF_vars(RunWouldBlock)
    /\ WF_vars(\E ok \in BOOLEAN : SenderStep(ok))


(***************************************************************************)
(* The address families and argument types of the wire protocol, used to   *)
(* state the properties below.                                             *)
(***************************************************************************)
WritableTrackLeaves == {"name", "selected", "volume", "pan", "mute", "solo", "rec-arm", "color"}
WritableSendLeaves == {"volume", "pan"}
BoolLeaves == {"selected", "mute", "solo", "rec-arm"}

\* a send index as a peer writes it: decimal digits, no sign, no leading zero
IsCanonicalIndex(str) ==
    /\ Len(str) >= 1
    /\ \A i \in 1..Len(str) : IsDigit(CharAt(str, i))
    /\ (Len(str) = 1 \/ CharAt(str, 1) # "0")

HasMarker(segs) == Len(segs) >= 1 /\ segs[Len(segs)] = "?"
BaseOf(segs) == IF HasMarker(segs) THEN SubSeq(segs, 1, Len(segs) - 1) ELSE segs

IsTrackAddress(base) == Len(base) = 3 /\ base[1] = "track" /\ base[3] \in WritableTrackLeaves
IsSendAddress(base) ==
    /\ Len(base) = 5 /\ base[1] = "track" /\ base[3] = "send"
    /\ IsCanonicalIndex(base[4]) /\ base[5] \in WritableSendLeaves
IsWritableAddress(base) == IsTrackAddress(base) \/ IsSendAddress(base)

RECURSIVE JoinSegs(_)
JoinSegs(segs) == IF segs = <<>> THEN "" ELSE "/" \o Head(segs) \o JoinSegs(Tail(segs))

\* the entities of the project: its tracks and the master track
Entities == {MasterTrack} \cup {project[i] : i \in 1..Len(project)}
Resolves(guid) == \E t \in Entities : GuidStr[t] = guid
EntityOf(guid) == CHOOSE t \in Entities : GuidStr[t] = guid

\* the wire value whose curve image is the linear gain vol
WireOfGain(vol) ==
    CHOOSE w \in {pt[1] : pt \in SliderCurve} : to_linear_volume_value(slider2db(w)) = vol

SendExists(base) ==
    Unwrap(ParseI32(base[4])) < Len(backend[EntityOf(base[2])].sends)

\* the argument a query on base must answer with, from the backend's state
BackendArgument(base) ==
    LET t == EntityOf(base[2]) IN
    IF Len(base) = 3
    THEN CASE base[3] = "name" -> OscString(backend[t].name)
           [] base[3] = "selected" -> OscBool(backend[t].selected # 0)
           [] base[3] = "volume" -> OscFloat(WireOfGain(backend[t].vol))
           [] base[3] = "pan" -> OscFloat(backend[t].pan)
           [] base[3] = "mute" -> OscBool(backend[t].mute # 0)
           [] base[3] = "solo" -> OscBool(backend[t].solo # 0)
           [] base[3] = "rec-arm" -> OscBool(backend[t].recarm # 0)
           [] base[3] = "color" -> OscInt(backend[t].color)
    ELSE LET snd == backend[t].sends[Unwrap(ParseI32(base[4])) + 1] IN
         IF base[5] = "volume" THEN OscFloat(snd.vol) ELSE OscFloat(snd.pan)

\* the last host operation handled a message; its parsed address
LastIsMessage == last.op = "packet" /\ last.dgram.kind = "Message"
LastSegs == Segments[last.dgram]
LastBase == BaseOf(LastSegs)
LastIsWrite == LastIsMessage /\ ~HasMarker(LastSegs)
LastIsQuery == LastIsMessage /\ HasMarker(LastSegs)

\* argument 0 is absent, or of a type the address family does not take
BadArgument0(base, args) ==
    \/ args = <<>>
    \/ /\ Len(base) = 3
       /\ \/ base[3] = "name" /\ args[1].ty # "String"
          \/ base[3] \in BoolLeaves /\ args[1].ty \notin {"Bool", "Int"}
          \/ base[3] \in {"volume", "pan"} /\ args[1].ty # "Float"
          \/ base[3] = "color" /\ args[1].ty # "Int"
    \/ Len(base) = 5 /\ args[1].ty # "Float"

(***************************************************************************)
(* Properties.                                                             *)
(***************************************************************************)

\* C1: a datagram that is undecodable, or that matches a route with too few or
\* mistyped arguments, never aborts the host tick: after any datagram run's loop
\* is still running and no panic has left the callback.
C1_MalformedNeverAborts == last.op = "packet" => (~crashed /\ hostpc = "run")

C3_BadArgumentIsBadValue ==
    (LastIsWrite /\ IsWritableAddress(LastBase) /\ Resolves(LastBase[2])
       /\ BadArgument0(LastBase, last.dgram.args))
    => /\ Len(last.log) = 1
       /\ last.log[1].res = "BadValue"
       /\ ~last.changed

\* C4: a write to an identifier of no entity ends in GuidNotFound, with no
\* backend mutation, no outbound message and no crash, whatever its arguments.
C4_UnknownGuidIsGuidNotFound ==
    (LastIsWrite /\ IsWritableAddress(LastBase) /\ ~Resolves(LastBase[2]))
    => /\ Len(last.log) = 1
       /\ last.log[1].res = "GuidNotFound"
       /\ ~last.changed
       /\ last.out = <<>>
       /\ ~crashed

\* C4 witness: /track/UNKNOWN/mute with the argument true has been handled
C4_Witness ==
    /\ LastIsWrite
    /\ last.dgram = Message(In3(UnknownGuid, "mute"), <<OscBool(TRUE)>>)
    /\ last.log = <<LogEntry("TrackMuteRoute", FALSE, "GuidNotFound")>>

\* consecutive messages of the poller on one address never carry the same value
C5_NoRepeat ==
    \A i, j \in 1..Len(enqueued) :
        (/\ i < j
         /\ enqueued[i].addr = enqueued[j].addr
         /\ \A k \in (i + 1)..(j - 1) : enqueued[k].addr # enqueued[i].addr)
        => enqueued[i].args # enqueued[j].args

\* a poll tick pushes the color of every track whose identifier the cache lacks
C5_FirstObservation ==
    nticks' = nticks + 1
    => \A i \in 1..Len(project) :
          GuidStr[project[i]] \notin CacheKeys(prev_colors)
          => \E k \in (Len(enqueued) + 1)..Len(enqueued') :
                enqueued'[k] = OscMessage(Addr3(GuidStr[project[i]], "color"),
                                          <<OscInt(backend[project[i]].color)>>)

\* C5: the poller never emits two consecutive messages with the same value for
\* one (track, color) pair, and it emits on the first tick that observes a track.
C5_PollerEmitsOnChangeOnly == []C5_NoRepeat /\ [][C5_FirstObservation]_vars

\* C5 witness: three ticks and one recoloring: the two tracks' first observation
\* and one change were emitted, nothing else
C5_Witness ==
    /\ nticks = 3
    /\ nchanges = 1
    /\ Len(enqueued) = 3
    /\ \E i, j \in 1..Len(enqueued) : i < j /\ enqueued[i].addr = enqueued[j].addr

\* C6: the sender thread writes messages in the order of their push: what it
\* wrote is a subsequence of what was pushed, nothing reordered, nothing twice.
C6_SenderPreservesOrder ==
    /\ \A i \in 1..Len(written) :
          /\ written[i].id \in 1..Len(enqueued)
          /\ written[i].msg = enqueued[written[i].id]
    /\ \A i, j \in 1..Len(written) : i < j => written[i].id < written[j].id

\* C6 witness: messages of two producers were written while another one waits
C6_Witness ==
    /\ Len(written) >= 2
    /\ queue # <<>>
    /\ \E i, j \in 1..Len(written) : written[i].msg.addr # written[j].msg.addr

\* C7: at most one route's matcher returns parameters for an address.
C7_AtMostOneRouteMatches ==
    Cardinality({r \in Routes : Matched[last.dgram][r] # None}) <= 1

\* C7 witness: a send address was dispatched, and one route matched it
C7_Witness ==
    /\ LastIsMessage
    /\ Len(LastBase) = 5
    /\ Cardinality({r \in Routes : Matched[last.dgram][r] # None}) = 1

\* the address a route's pattern gives for receive parameters p: the format! of its
\* build_message with p's identifier and index
IndexText(r, n) == IF r = "TrackSendGuidRoute" THEN FormatI32(n) ELSE FormatAsU32(n)
PatternAddress(r, p) ==
    IF r \in SendRoutes
    THEN Addr5(p.track_guid, IndexText(r, p.send_index), Leaf(r))
    ELSE Addr3(p.track_guid, Leaf(r))
RoundTrips(r) ==
    parse_osc_address(PatternAddress(r, Unwrap(Matched[last.dgram][r]))) = LastBase

\* C8 as claimed: whenever a matcher returns parameters, substituting them into
\* the pattern reproduces every segment, the send index segment included.
C8_RoundTripEverySegment ==
    \A r \in Routes : (LastIsMessage /\ Matched[last.dgram][r] # None) => RoundTrips(r)

\* C8 as amended: the round trip holds when the send index segment is in
\* canonical decimal form (no sign, no leading zero).
C8_RoundTripCanonicalIndex ==
    \A r \in Routes :
        (/\ LastIsMessage
         /\ Matched[last.dgram][r] # None
         /\ r \in SendRoutes => IsCanonicalIndex(LastBase[4]))
        => RoundTrips(r)

\* C8 witness: a send address with a canonical index was matched
C8_Witness ==
    /\ LastIsMessage
    /\ last.dgram.addr = In5(G1, "0", "pan")
    /\ Matched[last.dgram]["TrackSendPanRoute"] # None

\* the direct-mapped parameters
DirectRoutes ==
    {"TrackSelectedRoute", "TrackPanRoute", "TrackMuteRoute", "TrackSoloRoute",
     "TrackRecArmRoute", "TrackColorRoute", "TrackNameRoute", "TrackSendPanRoute"}

\* d is the message that route r's encode produces for some value of entity t
IsEncodedBy(r, t, index, d) ==
    \E v \in {0, 1, 2, 500}, str \in {"a", "b", "c"} :
        build_message(r, SendParams(t, index, v, str)) = OscMessage(d.addr, d.args)

\* the last operation applied, as a write, a message that r's encode produces
AppliedEncoded(r) ==
    /\ LastIsWrite
    /\ Matched[last.dgram][r] # None
    /\ Resolves(LastBase[2])
    /\ r \in SendRoutes => (IsCanonicalIndex(LastBase[4]) /\ SendExists(LastBase))
    /\ IsEncodedBy(r, EntityOf(LastBase[2]), Unwrap(Matched[last.dgram][r]).send_index, last.dgram)

\* C9: for a direct-mapped parameter, applying the message that encode produces
\* for a value succeeds, and collecting and encoding again yields that message.
C9_EncodeApplyIsIdempotent ==
    \A r \in DirectRoutes :
        AppliedEncoded(r)
        => /\ last.log = <<LogEntry(r, FALSE, "Ok")>>
           /\ LET c == collect_send_params(r, Unwrap(Matched[last.dgram][r]), project, backend) IN
              /\ c.res = "Ok"
              /\ build_message(r, Unwrap(c.params)) = OscMessage(last.dgram.addr, last.dgram.args)

GluedQuery == Message(In3(G1, "volume?"), <<>>)
SegmentQuery == Message(In3(G1, "volume") \o "/?", <<>>)
VolumeAnswer == OscMessage(In3(G1, "volume"), <<OscFloat(500)>>)

\* C10 as claimed: after 0.5 was written to /track/<guid>/volume, the message
\* /track/<guid>/volume? pushes one /track/<guid>/volume message carrying 0.5.
C10_GluedMarkerIsAnswered ==
    (last.op = "packet" /\ last.dgram = GluedQuery /\ backend["T1"].vol = 249)
    => last.out = <<VolumeAnswer>>

\* C10 as amended: the query is answered with 0.5 when the marker is a segment of
\* its own (/track/<guid>/volume/?); with the marker glued to the last segment the
\* address matches no route and nothing is pushed.
C10_SegmentMarkerIsAnswered ==
    /\ (last.op = "packet" /\ last.dgram = SegmentQuery /\ backend["T1"].vol = 249)
       => last.out = <<VolumeAnswer>>
    /\ (last.op = "packet" /\ last.dgram = GluedQuery)
       => (last.out = <<>> /\ last.log = <<>>)

\* C10 witness: the query with its own marker segment, after the write of 0.5
C10_Witness ==
    /\ last.op = "packet"
    /\ last.dgram = SegmentQuery
    /\ backend["T1"].vol = 249
    /\ Len(last.out) = 1


\* the tracks of the project, in a set; the master track is not one of them
ProjectTracks == {project[i] : i \in 1..Len(project)}

\* the index message a track-list change owes to the track at position i
IndexMessageOf(i) == OscMessage(In3(GuidStr[project[i]], "index"), <<OscInt(i)>>)

\* the send-identifier message it owes to send j (from 0) of track t
SendGuidMessageOf(t, j) ==
    OscMessage(In5(GuidStr[t], ToString(j), "guid"), <<OscString(GuidStr[backend[t].sends[j + 1].dest])>>)

TrackListOwed ==
    {IndexMessageOf(i) : i \in 1..Len(project)}
    \cup UNION {{SendGuidMessageOf(t, j) : j \in 0..(Len(backend[t].sends) - 1)} : t \in ProjectTracks}

IsIndexMessage(m) == \E t \in Tracks : m.addr = In3(GuidStr[t], "index")

\* the number of index messages the last operation pushed
IndexMessageCount == Cardinality({k \in 1..Len(last.out) : IsIndexMessage(last.out[k])})

\* the last operation pushed the messages owed, each once, and nothing else
PushedWhatIsOwed ==
    /\ \A e \in TrackListOwed : \E k \in 1..Len(last.out) : last.out[k] = e
    /\ Len(last.out) = Cardinality(TrackListOwed)
    /\ IndexMessageCount = Len(project)
    /\ \A k \in 1..Len(last.out) : last.out[k].addr # In3(GuidStr[MasterTrack], "index")
    /\ Len(enqueued) >= Len(last.out)
    /\ SubSeq(enqueued, Len(enqueued) - Len(last.out) + 1, Len(enqueued)) = last.out

\* this step is a track-list-change notification
TrackListChangeStep == nops' = nops + 1 /\ last'.op = "set_track_list_change"

\* C11 as claimed: a track-list change pushes one index message per entity of the
\* project, the master track counted: 3 index messages for 3 entities.
C11_OneIndexMessagePerEntity ==
    [][TrackListChangeStep => (IndexMessageCount = Cardinality(Entities))']_vars

\* C11 as amended: a track-list change pushes exactly one index message per track
\* of the project, carrying the track's identifier and its position, and one
\* send-identifier message per send of these tracks, carrying the destination's
\* identifier, and nothing else; the master track gets no index message.
C11_OneIndexMessagePerProjectTrack ==
    [][TrackListChangeStep => PushedWhatIsOwed']_vars

\* C11 witness: a track-list change on a project of two tracks, one with two sends
C11_Witness ==
    /\ last.op = "set_track_list_change"
    /\ Len(project) = 2
    /\ \E t \in ProjectTracks : Len(backend[t].sends) = 2
    /\ Len(last.out) = 4

\* C12 as claimed: the host thread is never blocked, a full outbound queue and a
\* stalled sender thread included.
C12_DrainNeverBlocks == hostpc # "blocked"

\* C12 as amended: the drain blocks the host thread only in the push of a response
\* onto a queue that holds its full capacity of messages; while the queue has room
\* every dispatch returns to the loop, and the queue never exceeds its capacity.
C12_BlocksOnlyOnFullQueue ==
    /\ [](Len(queue) <= QueueCapacity)
    /\ [][(hostpc # "blocked" /\ hostpc' = "blocked")
           => (Len(queue) = QueueCapacity /\ queue' = queue /\ pending'.msgs # <<>>)]_vars
    /\ [][(hostpc = "run" /\ nops' = nops + 1 /\ Len(queue) < QueueCapacity)
           => hostpc' = "run"]_vars

\* C12 witness: the sender thread made no progress, the drain answered as many
\* queries as the queue holds, and run returned to the host
C12_Witness ==
    /\ hostpc = "idle"
    /\ written = <<>>
    /\ Len(queue) = QueueCapacity
    /\ nops = QueueCapacity

IsReadOnlyAddress(base) ==
    \/ Len(base) = 3 /\ base[1] = "track" /\ base[3] = "index"
    \/ /\ Len(base) = 5 /\ base[1] = "track" /\ base[3] = "send"
       /\ IsCanonicalIndex(base[4]) /\ base[5] = "guid"

\* the response a query on a read-only address must get
ReadOnlyAnswer(base) ==
    LET t == EntityOf(base[2]) IN
    IF Len(base) = 3
    THEN OscMessage(JoinSegs(base), <<OscInt(TrackNumber(project, t))>>)
    ELSE OscMessage(JoinSegs(base),
                    <<OscString(GuidStr[backend[t].sends[Unwrap(ParseI32(base[4])) + 1].dest])>>)

\* C13: the read-only address families are served: a query on the index address
\* or on the send-identifier address of an existing track (and send) pushes
\* exactly one response on that address with the current value, and a write to
\* either changes nothing.
C13_ReadOnlyRoutesAreServed ==
    (/\ LastIsMessage
     /\ IsReadOnlyAddress(LastBase)
     /\ Resolves(LastBase[2])
     /\ Len(LastBase) = 5 => SendExists(LastBase))
    => IF HasMarker(LastSegs)
       THEN last.out = <<ReadOnlyAnswer(LastBase)>>
       ELSE last.out = <<>> /\ ~last.changed /\ ~crashed

\* the notifications the spec has the event adapter subscribe to, one value each
ValueNotifications ==
    {"set_surface_volume", "set_surface_pan", "set_surface_mute", "set_track_title",
     "set_surface_selected"}

\* C14: each notification of a changed volume, pan, mute, name or selection
\* pushes exactly one message.
C14_EveryNotificationIsPublished ==
    last.op \in ValueNotifications
    => /\ Len(last.out) = 1
       /\ Len(enqueued) >= 1
       /\ enqueued[Len(enqueued)] = last.out[1]

ColorMessage(t, c) == OscMessage(In3(GuidStr[t], "color"), <<OscInt(c)>>)

\* C15: once a track's color is 2 (which only an out-of-band change brings
\* about), a color message carrying 2 is eventually pushed, unless the color
\* changes again first.
C15_ColorChangeIsPublished ==
    (backend["T1"].color = 2)
    ~> (\/ backend["T1"].color # 2
        \/ \E k \in 1..Len(enqueued) : enqueued[k] = ColorMessage("T1", 2))

\* a step of the sender thread: the network saw a message, or the queue lost one
SenderActed == written' # written \/ Len(queue') < Len(queue)

\* a step that reads or writes the engine: it mutates the backend or handles a
\* host operation
HostActed == backend' # backend \/ nops' # nops \/ hostpc' # hostpc

\* C16: a sender step takes the head of the queue and writes it (or drops it on a
\* failed write) and leaves everything else alone, the backend included; a step
\* that touches the backend or runs a host callback never writes to the network
\* and never takes from the queue.
C16_SenderTouchesOnlyTheQueue ==
    [][/\ SenderActed
          => /\ queue # <<>>
             /\ queue' = Tail(queue)
             /\ written' \in {written, Append(written, Head(queue))}
             /\ UNCHANGED <<project, backend, hostpc, pending, crashed, nops, last, enqueued,
                            pollvars>>
       /\ HostActed
          => /\ written' = written
             /\ Len(queue') >= Len(queue)
             /\ SubSeq(queue', 1, Len(queue)) = queue]_vars

\* C16 witness: the host thread mutated the backend and the sender thread wrote
C16_Witness ==
    /\ written # <<>>
    /\ backend["T1"].mute = 1
    /\ queue # <<>>

RECURSIVE DecimalValue(_)
\* the number a text of up to nine digits writes
DecimalValue(str) ==
    IF Len(str) = 0 THEN 0
    ELSE DecimalValue(SubSeq(str, 1, Len(str) - 1)) * 10 + DigitVal(CharAt(str, Len(str)))

\* a send index segment of the address grammar: a decimal integer of 32 bits, with
\* an optional sign (texts of more than ten digits do not occur)
IsIndexText(str) ==
    LET signed == Len(str) >= 1 /\ CharAt(str, 1) \in {"+", "-"}
        digits == IF signed THEN SubSeq(str, 2, Len(str)) ELSE str
        most == IF signed /\ CharAt(str, 1) = "-" THEN 8 ELSE 7
    IN  /\ Len(digits) >= 1
        /\ Len(digits) <= 10
        /\ \A i \in 1..Len(digits) : IsDigit(CharAt(digits, i))
        /\ Len(digits) = 10
           => \/ DecimalValue(SubSeq(digits, 1, 9)) < 214748364
              \/ /\ DecimalValue(SubSeq(digits, 1, 9)) = 214748364
                 /\ DigitVal(CharAt(digits, 10)) <= most

\* the address, without empty segments and without the marker, is of no address
\* family of the table
InNoFamily(base) ==
    /\ ~(Len(base) = 3 /\ base[1] = "track"
         /\ base[3] \in WritableTrackLeaves \cup {"index"})
    /\ ~(Len(base) = 5 /\ base[1] = "track" /\ base[3] = "send" /\ IsIndexText(base[4])
         /\ base[5] \in WritableSendLeaves \cup {"guid"})

\* C17: a message whose address, after removing empty segments and a trailing
\* query marker, is of no address family leaves the backend and the outbound
\* queue unchanged, runs no route and raises no error: the drain goes on.
C17_UnmatchedAddressIsIgnored ==
    (LastIsMessage /\ InNoFamily(LastBase))
    => /\ last.out = <<>>
       /\ last.log = <<>>
       /\ ~last.changed
       /\ ~crashed
       /\ hostpc \in {"run", "idle"}

\* C17 witness: /master/volume with a float argument has been handled
C17_Witness ==
    /\ LastIsMessage
    /\ last.dgram = Message("/master/volume", <<OscFloat(500)>>)
    /\ hostpc = "run"

\* C18: a write dispatch pushes no message, whether its apply succeeds or fails,
\* and runs apply once at most, a failed apply leaving the backend as it was; a
\* query whose collect fails (here: on an identifier of no entity) pushes nothing.
C18_NoReplyToWritesAndFailedQueries ==
    /\ LastIsWrite
       => /\ last.out = <<>>
          /\ Len(last.log) <= 1
          /\ (Len(last.log) = 1 /\ last.log[1].res # "Ok") => ~last.changed
    /\ (LastIsQuery /\ IsWritableAddress(LastBase) /\ ~Resolves(LastBase[2]))
       => /\ last.out = <<>>
          /\ Len(last.log) = 1
          /\ last.log[1].res = "GuidNotFound"
    /\ (LastIsQuery /\ \E k \in 1..Len(last.log) : last.log[k].res # "Ok") => last.out = <<>>

\* C18 witness: a query on the mute address of an identifier of no entity, as the
\* second operation, with nothing pushed and nothing changed so far
C18_Witness ==
    /\ LastIsQuery
    /\ last.dgram = Message(In3(UnknownGuid, "mute") \o "/?", <<>>)
    /\ nops = 2
    /\ backend = [t \in Tracks |-> InitTrack(t)]
    /\ enqueued = <<>>

\* the last operation wrote a normalized wire value to the volume address of an
\* entity
WroteVolume ==
    /\ LastIsWrite
    /\ Len(LastBase) = 3 /\ LastBase[1] = "track" /\ LastBase[3] = "volume"
    /\ Resolves(LastBase[2])
    /\ Len(last.dgram.args) = 1
    /\ last.dgram.args[1].ty = "Float"
    /\ last.dgram.args[1].i \in 0..1000

C20_SendVolumeIsCurveMapped ==
    \A x \in {0, 500, 716, 1000} :
        (/\ LastIsWrite
         /\ IsSendAddress(LastBase)
         /\ LastBase[5] = "volume"
         /\ Resolves(LastBase[2])
         /\ SendExists(LastBase)
         /\ last.dgram.args = <<OscFloat(x)>>)
        => backend[EntityOf(LastBase[2])].sends[Unwrap(ParseI32(LastBase[4])) + 1].vol
           = to_linear_volume_value(slider2db((x * TWELVE_DB) \div 1000))

IsSendFamilyAddress(base) ==
    /\ Len(base) = 5 /\ base[1] = "track" /\ base[3] = "send"
    /\ IsIndexText(base[4]) /\ base[5] \in {"guid", "volume", "pan"}

\* the send index of the address names no send of the track
SendMissing(base) ==
    \/ Unwrap(ParseI32(base[4])) < 0
    \/ Unwrap(ParseI32(base[4])) >= Len(backend[EntityOf(base[2])].sends)

\* C21: a query on a send address of an existing track whose send index names no
\* send fails with ValueNotFound and pushes nothing; a query on a send address of
\* an identifier of no entity fails with GuidNotFound.
C21_MissingSendIsValueNotFound ==
    (LastIsQuery /\ IsSendFamilyAddress(LastBase))
    => /\ ~Resolves(LastBase[2])
          => /\ last.out = <<>>
             /\ Len(last.log) = 1
             /\ last.log[1].res = "GuidNotFound"
       /\ (Resolves(LastBase[2]) /\ SendMissing(LastBase))
          => /\ last.out = <<>>
             /\ Len(last.log) = 1
             /\ last.log[1].res = "ValueNotFound"

RECURSIVE SqueezeFrom(_, _, _)
\* the address from character i on, without the slashes that follow a slash (or
\* open the address)
SqueezeFrom(str, i, afterSlash) ==
    IF i > Len(str) THEN ""
    ELSE IF CharAt(str, i) = "/"
         THEN (IF afterSlash THEN "" ELSE "/") \o SqueezeFrom(str, i + 1, TRUE)
         ELSE CharAt(str, i) \o SqueezeFrom(str, i + 1, FALSE)

\* the address without leading, trailing and doubled slashes
Squeeze(str) ==
    LET t == SqueezeFrom(str, 1, TRUE) IN
    IF Len(t) >= 1 /\ CharAt(t, Len(t)) = "/" THEN SubSeq(t, 1, Len(t) - 1) ELSE t

Squeezed == [d \in Datagrams |-> Squeeze(d.addr)]

\* two messages with the same arguments whose addresses differ in empty segments only
SameUpToEmptySegments(d, e) ==
    /\ d.kind = "Message" /\ e.kind = "Message"
    /\ d.args = e.args
    /\ Squeezed[d] = Squeezed[e]

\* this step handled a datagram
PacketStep == nops' = nops + 1 /\ last'.op = "packet"

\* C22: when a message is dispatched, every message that differs from it only in
\* empty address segments would have selected the same routes with the same
\* parameters, and would have had the same effect on the backend, the outbound
\* queue and the log.
C22_EmptySegmentsDoNotMatter ==
    [][PacketStep
       => \A e \in Datagrams :
             SameUpToEmptySegments(last'.dgram, e)
             => /\ Matched[e] = Matched[last'.dgram]
                /\ IsQuery[e] = IsQuery[last'.dgram]
                /\ LET st == handle_packet(e, project, backend) IN
                   /\ st.b = backend'
                   /\ st.out = last'.out
                   /\ st.log = last'.log
                   /\ st.panicked = crashed']_vars

\* C22 witness: //track/<guid>//mute/ was dispatched and muted the track
C22_Witness ==
    /\ LastIsMessage
    /\ last.dgram = Message("//track/" \o G1 \o "//mute/", <<OscInt(1)>>)
    /\ last.changed
    /\ backend["T1"].mute = 1

\* C23: the queue never holds more than its capacity; every response a query of
\* the burst produced is in the history of pushes or still held by the blocked
\* producer (none is dropped); the queue holds the pushed messages not yet taken,
\* in push order (none is overwritten); nothing is pushed onto a full queue, and a
\* blocked producer goes on only when the queue has room, pushing what it held.
C23_QueueIsBoundedAndLossless ==
    /\ [](Len(queue) <= QueueCapacity)
    /\ [](nops = Len(enqueued) + Len(pending.msgs))
    /\ [](\A k \in 1..Len(queue) :
             /\ queue[k].id = Len(enqueued) - Len(queue) + k
             /\ queue[k].msg = enqueued[queue[k].id])
    /\ [][Len(queue) = QueueCapacity => enqueued' = enqueued]_vars
    /\ [][(hostpc = "blocked" /\ hostpc' # "blocked")
           => (Len(queue) < QueueCapacity /\ enqueued' = enqueued \o pending.msgs)]_vars

\* C23 witness: the producer was blocked on the full queue, the sender thread took
\* a message, and the producer pushed the message it held
C23_Witness ==
    /\ nops = QueueCapacity + 1
    /\ Len(enqueued) = QueueCapacity + 1
    /\ Len(written) = 1
    /\ hostpc = "run"

InQueue(i) == \E k \in 1..Len(queue) : queue[k].id = i

\* C24: under weak fairness of the sender thread every message in the queue is
\* eventually taken from it; a taken message is written once or, on a failure,
\* not at all, and never comes back into the queue; no message is written twice.
C24_EveryMessageIsTakenOnce ==
    /\ \A i \in 1..MaxOps : InQueue(i) ~> ~InQueue(i)
    /\ [](\A i \in 1..MaxOps : Cardinality({k \in 1..Len(written) : written[k].id = i}) <= 1)
    /\ [](\A k \in 1..Len(written) :
             written[k].id \in 1..Len(enqueued) /\ written[k].msg = enqueued[written[k].id])
    /\ [][SenderActed
          => /\ \A k \in 1..Len(queue') : queue'[k].id # Head(queue).id
             /\ written' \in {written, Append(written, Head(queue))}]_vars
    /\ [][\A i \in 1..Len(enqueued) : ~InQueue(i) => ~InQueue(i)']_vars

\* C24 witness: two messages were pushed and taken, one written and one dropped
C24_Witness ==
    /\ Len(enqueued) = 2
    /\ queue = <<>>
    /\ Len(written) = 1

\* this step is a poll tick
PollTickStep == nticks' = nticks + 1

\* the tracks the tick enumerates whose color the cache does not hold: no entry for
\* the identifier, or an entry with another color
NewOrChanged == {t \in ProjectTracks : <<GuidStr[t], backend[t].color>> \notin prev_colors}

\* C25: a poll tick pushes a color message for a track it enumerates if and only
\* if the cache had no entry or another color for it; it pushes as many messages
\* as there are such tracks; after it the cache holds, for every enumerated
\* track, one entry, with the track's current color.
C25_TickPushesExactlyTheChanges ==
    [][PollTickStep
       => /\ Len(enqueued') = Len(enqueued) + Cardinality(NewOrChanged)
          /\ \A t \in ProjectTracks :
                (t \in NewOrChanged)
                <=> \E k \in (Len(enqueued) + 1)..Len(enqueued') :
                       enqueued'[k] = ColorMessage(t, backend[t].color)
          /\ \A t \in ProjectTracks :
                {e \in prev_colors' : e[1] = GuidStr[t]} = {<<GuidStr[t], backend[t].color>>}]_vars

\* C25 witness: a tick that found one track changed and one unchanged
C25_Witness ==
    /\ nticks = 2
    /\ nchanges = 1
    /\ Len(project) = 2
    /\ Len(enqueued) = 3

(***************************************************************************)
(* The poller and the master track; the life of the poll cache.            *)
(***************************************************************************)
\* the cache does not hold the master track's current color
MasterNewOrChanged == <<GuidStr[MasterTrack], backend[MasterTrack].color>> \notin prev_colors

\* C26: the poller covers the master track: a poll tick that finds the master
\* track's color absent from the cache, or cached with another value, pushes one
\* color message for the master track and leaves the cache with the master
\* track's current color.
C26_PollerCoversTheMaster ==
    [][(PollTickStep /\ MasterNewOrChanged)
       => /\ \E k \in (Len(enqueued) + 1)..Len(enqueued') :
                enqueued'[k] = ColorMessage(MasterTrack, backend[MasterTrack].color)
          /\ <<GuidStr[MasterTrack], backend[MasterTrack].color>> \in prev_colors']_vars

\* the cache entries of one identifier
EntriesOf(cache, guid) == {e \in cache : e[1] = guid}

\* the tracks that are not in the project
Deleted(proj) == {t \in Tracks \ {MasterTrack} : \A i \in 1..Len(proj) : proj[i] # t}

\* C27: no step removes an identifier from the poll cache, and the entry of a
\* track that is not in the project keeps its value: across poll ticks,
\* insertions and deletions the cache's identifiers only grow, and a deleted
\* track's entry stays at the color last observed.
C27_CacheEntriesAreNeverRemoved ==
    [][/\ CacheKeys(prev_colors) \subseteq CacheKeys(prev_colors')
       /\ \A t \in Deleted(project') :
             EntriesOf(prev_colors, GuidStr[t]) # {}
             => EntriesOf(prev_colors', GuidStr[t]) = EntriesOf(prev_colors, GuidStr[t])]_vars

\* C27 witness: a track was observed, recolored and deleted, and a later tick
\* left its entry at the color observed before
C27_Witness ==
    /\ nticks >= 2
    /\ "T1" \in Deleted(project)
    /\ Len(project) = 1
    /\ EntriesOf(prev_colors, G1) # {}
    /\ <<G1, backend["T1"].color>> \notin prev_colors

(***************************************************************************)
(* What one inbound message can do.                                        *)
(***************************************************************************)
\* C28: a query never changes the backend: after the dispatch of a message whose
\* last segment is the query marker, whatever its arguments, the backend is as
\* before, every route that ran took the query path, and nothing panicked.
C28_QueryNeverMutates ==
    LastIsQuery
    => /\ ~last.changed
       /\ ~crashed
       /\ \A k \in 1..Len(last.log) : last.log[k].query

\* C28 witness: a query on mute that carries the argument of a write was
\* answered, and the track is still unmuted
C28_Witness ==
    /\ nops = 1
    /\ last.dgram = Message(In3(G1, "mute") \o "/?", <<OscInt(1)>>)
    /\ Len(last.out) = 1
    /\ Len(last.log) = 1
    /\ backend["T1"].mute = 0

\* C29: resolution inverts get_track_guid on the entities of the project: for
\* the master track and every track of the project it returns that track; for
\* the identifier of a track that is not in the project, and for a string that
\* is no track's identifier, it returns none (GuidNotFound).
C29_ResolutionRoundTrips ==
    /\ \A t \in Entities : get_track_by_guid(project, get_track_guid(t)) = Some(t)
    /\ \A t \in Deleted(project) : get_track_by_guid(project, get_track_guid(t)) = None
    /\ get_track_by_guid(project, UnknownGuid) = None

\* C29 witness: the project was reordered by a deletion and an undo, the track
\* to resolve is not the first one, and another track is gone
C29_Witness ==
    /\ Len(project) = 2
    /\ project[2] = "T1"
    /\ get_track_by_guid(project, G1) = Some("T1")
    /\ nops >= 1

\* C29 witness of the missing entity: a deleted track's identifier is asked for
C29_WitnessDeleted == "T2" \in Deleted(project) /\ Len(project) = 1 /\ nops >= 1

\* C30: one inbound message runs one route at most: it makes one backend write
\* at most, pushes one outbound message at most, and never does both.
C30_OneEffectPerMessage ==
    last.op = "packet"
    => /\ Len(last.log) <= 1
       /\ Len(last.out) <= 1
       /\ Cardinality({k \in 1..Len(last.log) : ~last.log[k].query}) <= 1
       /\ ~(last.changed /\ last.out # <<>>)
       /\ (last.out # <<>>) => \A k \in 1..Len(last.log) : last.log[k].query

\* C30 witness: a write on mute changed the backend through one route and
\* pushed nothing
C30_Witness ==
    /\ last.op = "packet"
    /\ last.dgram = Message(In3(G1, "mute"), <<OscInt(1)>>)
    /\ last.changed
    /\ Len(last.log) = 1
    /\ last.out = <<>>

(***************************************************************************)
(* The order of the messages of a track-list change.                       *)
(***************************************************************************)
RECURSIVE BlockStart(_)
\* the number of messages a track-list change owes to the tracks before position i
BlockStart(i) ==
    IF i <= 1 THEN 0 ELSE BlockStart(i - 1) + 1 + Len(backend[project[i - 1]].sends)

\* the last operation pushed, for each track in project order, the track's index
\* message, then its send-identifier messages by increasing send index, then the
\* next track's messages, and these are the last messages pushed on the channel
PushedInProjectOrder ==
    /\ Len(last.out) = BlockStart(Len(project) + 1)
    /\ \A i \in 1..Len(project) :
          /\ last.out[BlockStart(i) + 1] = IndexMessageOf(i)
          /\ \A j \in 0..(Len(backend[project[i]].sends) - 1) :
                last.out[BlockStart(i) + 2 + j] = SendGuidMessageOf(project[i], j)
    /\ Len(enqueued) >= Len(last.out)
    /\ SubSeq(enqueued, Len(enqueued) - Len(last.out) + 1, Len(enqueued)) = last.out

\* C31: a track-list change enqueues its messages track by track in project
\* order: a track's index message, immediately followed by that track's
\* send-identifier messages in increasing send index order, all of them before
\* any message of the next track.
C31_TrackListInProjectOrder ==
    [][TrackListChangeStep => PushedInProjectOrder']_vars

\* C31 witness: a track-list change on two tracks, the first with two sends and
\* the second with one: five messages, the second track's index message fourth
C31_Witness ==
    /\ last.op = "set_track_list_change"
    /\ Len(project) = 2
    /\ Len(backend[project[1]].sends) = 2
    /\ Len(backend[project[2]].sends) = 1
    /\ Len(last.out) = 5
    /\ last.out[4] = IndexMessageOf(2)

(***************************************************************************)
(* The poll manager's tick over its registered sources.                    *)
(***************************************************************************)
\* this step is a tick of the poll manager
PollAllStep == nticks' = nticks + 1 /\ last'.op = "poll_all"

\* source k has something to publish: its cache lacks a project track's color
HasNews(k) == \E t \in ProjectTracks : <<GuidStr[t], backend[t].color>> \notin sources[k]

\* C32: a tick polls every registered source, in registration order: source k
\* leaves the k-th result of the tick whatever the sources before it returned;
\* a source returns an error exactly when it has something to publish and the
\* channel's receiver is gone, the error is logged, and every source is seen to
\* have run: its cache took the color it observed, and on a live channel it
\* ends up with the current color of every track.
C32_EverySourceIsPolledInOrder ==
    [][PollAllStep
       => /\ Len(last'.log) = Len(sources)
          /\ \A k \in 1..Len(sources) :
                /\ last'.log[k].source = k
                /\ last'.log[k].res = (IF ~last'.connected /\ HasNews(k) THEN "Send" ELSE "Ok")
                /\ HasNews(k) => sources'[k] # sources[k]
                /\ last'.connected
                   => \A t \in ProjectTracks : <<GuidStr[t], backend[t].color>> \in sources'[k]]_vars

\* C32 witness: both sources failed in one tick on a dead channel (each cached
\* the first track's color, whose message was never pushed), and a later tick
\* on a live channel polled both again: each published the other track
C32_Witness ==
    /\ last.op = "poll_all"
    /\ last.connected
    /\ Len(sources) = 2
    /\ Len(last.log) = 2
    /\ Len(last.out) = 2
    /\ \A k \in 1..2 : <<G1, backend["T1"].color>> \in sources[k]
    /\ \A i \in 1..Len(enqueued) : enqueued[i] # ColorMessage("T1", backend["T1"].color)

(***************************************************************************)
(* Bundles.                                                                *)
(***************************************************************************)
\* the last host operation handled a decoded bundle
LastIsBundle == last.op = "packet" /\ last.dgram.kind = "Bundle"

\* C33: a bundle is never dispatched: no route runs on it, the backend stays as
\* it was and nothing is pushed, also when the bundle holds a write or a query
\* on an address a route matches; nothing panics and the drain loop goes on.
C33_BundleIsNeverDispatched ==
    LastIsBundle
    => /\ last.log = <<>>
       /\ ~last.changed
       /\ last.out = <<>>
       /\ ~crashed
       /\ hostpc \in {"run", "idle"}

\* C33 witness: a bundle holding a write on mute was received, the track is
\* still unmuted and the loop is at its next recv_from
C33_Witness ==
    /\ nops = 1
    /\ last.op = "packet"
    /\ last.dgram = Bundle
    /\ backend["T1"].mute = 0
    /\ enqueued = <<>>
    /\ hostpc = "run"

====
